---- MODULE Spec2Model ----
(***************************************************************************)
(* PSP core: the Greek-wallet table, the two distribution operations, the  *)
(* lookups and the genesis record, as a state machine.                     *)
(*                                                                         *)
(* Module state is the three module-level Python objects GREEK_WALLETS,    *)
(* ETERNAL_RULES and GENESIS_BLOCK plus GENESIS_HASH (computed once at     *)
(* import).  Each public function is one action that records its call in  *)
(* `last`: the function, its arguments, what it returned and how many      *)
(* writes callers had made by then.  Python returns references: the        *)
(* objects a function hands out without copying are recorded in `held`,    *)
(* and a caller may later write through them.  Every other object a        *)
(* function returns is built fresh from immutable scalars, so writing to   *)
(* it cannot reach module state.                                           *)
(*                                                                         *)
(* Numbers: PSP amounts and USD values are integers in millionths          *)
(* (7.500 = 7500000), so the 0.001 tolerance is 1000; percentages are      *)
(* integers in hundredths (26.67 = 2667).  Python's None is the empty      *)
(* tuple and a present value x is the one-element tuple <<x>>.             *)
(***************************************************************************)
EXTENDS Integers, Sequences, FiniteSets, TLC

VARIABLES GREEK_WALLETS, ETERNAL_RULES, GENESIS_BLOCK, GENESIS_HASH, held, writes, last

vars == <<GREEK_WALLETS, ETERNAL_RULES, GENESIS_BLOCK, GENESIS_HASH, held, writes, last>>

\* The keys of the dicts below.  A TLA+ record is unordered; every record of
\* this module lists its fields in this (alphabetical) order.
DictKeys ==
  DOMAIN [amount_psp |-> TRUE, args |-> TRUE, at |-> TRUE, audited_from_day_1 |-> TRUE,
          block_number |-> TRUE, certificate_id |-> TRUE, dapp_origen |-> TRUE,
          description |-> TRUE, destination_id |-> TRUE,
          destination_type |-> TRUE, display_role |-> TRUE, distribution |-> TRUE,
          emissions |-> TRUE, eternal_rules |-> TRUE, eternal_rules_applied |-> TRUE, fn |-> TRUE,
          genesis_hash |-> TRUE, hash |-> TRUE, immutable |-> TRUE, immutable_rules |-> TRUE,
          matches |-> TRUE, message |-> TRUE, name |-> TRUE, olympus_1_percent |-> TRUE,
          olympus_percentage |-> TRUE, on_transfer |-> TRUE, percentage |-> TRUE,
          portable |-> TRUE, previous_hash |-> TRUE, principles |-> TRUE,
          property_destination |-> TRUE, protocol |-> TRUE, protocol_version |-> TRUE,
          provided_hash |-> TRUE, psp |-> TRUE, psp_amount |-> TRUE,
          ret |-> TRUE, role |-> TRUE, satoshi_legacy |-> TRUE, satoshi_principle |-> TRUE,
          service_value_usd |-> TRUE, special_rule |-> TRUE, system_destinations |-> TRUE,
          timestamp |-> TRUE, total_psp |-> TRUE, total_psp_fixed |-> TRUE,
          total_psp_per_transaction |-> TRUE, user_destinations |-> TRUE, verified |-> TRUE,
          version |-> TRUE, wallet |-> TRUE, wallet_count |-> TRUE, wallets |-> TRUE,
          zeus_1_percent |-> TRUE, zeus_percentage |-> TRUE]

(* ------------------------------ bounds ------------------------------- *)

\* number of writes callers make through references they hold
MaxWrites == 1

(* --------------------------- Python values --------------------------- *)

None == <<>>

Some(x) == <<x>>

\* Python truthiness of an Optional[str]: None and "" are both falsy
Truthy(v) == v # None /\ v[1] # ""

Abs(x) == IF x < 0 THEN -x ELSE x

\* {**a, **b}: the keys of both, b's value wherever both have the key
DictMerge(a, b) == [f \in DOMAIN a \cup DOMAIN b |-> IF f \in DOMAIN b THEN b[f] ELSE a[f]]

(* ---------------------------- constants.py --------------------------- *)

TOTAL_PSP_PER_TRANSACTION == 7500000

\* the literal 0.001 of the three tolerance checks
TOLERANCE == 1000

\* insertion order of the dict literal GREEK_WALLETS (= WALLET_NAMES)
WALLET_NAMES == <<"athena", "hermes", "chronos", "prometheus", "apollo", "gaia", "zeus", "olympus">>

WalletKeys == {WALLET_NAMES[i] : i \in 1..Len(WALLET_NAMES)}

\* the dict literal assigned to GREEK_WALLETS
GreekWalletsLiteral ==
  [k \in WalletKeys |->
     CASE k = "athena" ->
            [description |-> "Proof Of Service Protocol Foundation - Operational expenses",
             destination_type |-> "foundation", display_role |-> "PSP Foundation",
             immutable |-> FALSE, name |-> "Athena", percentage |-> 2667,
             psp_amount |-> 2000000, role |-> "foundation"]
       [] k = "hermes" ->
            [description |-> "Platform operations and services",
             destination_type |-> "platform", display_role |-> "Platform Operations",
             immutable |-> FALSE, name |-> "Hermes", percentage |-> 1633,
             psp_amount |-> 1225000, role |-> "platform"]
       [] k = "chronos" ->
            [description |-> "Development team rewards",
             destination_type |-> "developers", display_role |-> "Development Team",
             immutable |-> FALSE, name |-> "Chronos", percentage |-> 1500,
             psp_amount |-> 1125000, role |-> "development"]
       [] k = "prometheus" ->
            [description |-> "Worker rewards for completed services",
             destination_type |-> "user", display_role |-> "Worker/Technician",
             immutable |-> FALSE, name |-> "Prometheus", percentage |-> 1333,
             psp_amount |-> 1000000, role |-> "worker"]
       [] k = "apollo" ->
            [description |-> "Client rewards for confirmed services",
             destination_type |-> "user", display_role |-> "Client",
             immutable |-> FALSE, name |-> "Apollo", percentage |-> 1333,
             psp_amount |-> 1000000, role |-> "client"]
       [] k = "gaia" ->
            [description |-> "Property NFT rewards - Portable Protocol",
             destination_type |-> "property_nft", display_role |-> "Property NFT",
             immutable |-> FALSE, name |-> "Gaia", percentage |-> 1333,
             psp_amount |-> 1000000, role |-> "property",
             special_rule |-> "PSP goes directly to PropertyNFT, not to user. Transfers with property ownership."]
       [] k = "zeus" ->
            [description |-> "Protocol DAO governance reserve - Immutable 1%",
             destination_type |-> "dao", display_role |-> "DAO/Protocol",
             immutable |-> TRUE, name |-> "Zeus", percentage |-> 100,
             psp_amount |-> 75000, role |-> "dao"]
       [] k = "olympus" ->
            [description |-> "Community legal operations - Immutable 1%",
             destination_type |-> "legal", display_role |-> "Legal Operations",
             immutable |-> TRUE, name |-> "Olympus", percentage |-> 100,
             psp_amount |-> 75000, role |-> "legal"]]

\* the dict literal assigned to ETERNAL_RULES
EternalRulesLiteral ==
  [audited_from_day_1 |-> TRUE, olympus_percentage |-> 100,
   satoshi_principle |-> "Without verified physical work, there is no emission.",
   total_psp_fixed |-> 7500000, zeus_percentage |-> 100]

\* sum(...) over a list of numbers, left to right
RECURSIVE SumSeq(_)
SumSeq(s) == IF s = <<>> THEN 0 ELSE s[1] + SumSeq(Tail(s))

\* [w['psp_amount'] for w in GREEK_WALLETS.values()]
WalletAmounts == [i \in 1..Len(WALLET_NAMES) |-> GREEK_WALLETS[WALLET_NAMES[i]].psp_amount]

\* a variant that compares the sum for equality, without the tolerance
validate_total_exact == SumSeq(WalletAmounts) = TOTAL_PSP_PER_TRANSACTION

validate_total == Abs(SumSeq(WalletAmounts) - TOTAL_PSP_PER_TRANSACTION) < TOLERANCE

\* the for loop of get_wallet_by_role from position i of the table on
RECURSIVE RoleScan(_, _)
RoleScan(role, i) ==
  IF i > Len(WALLET_NAMES) THEN None
  ELSE IF GREEK_WALLETS[WALLET_NAMES[i]].role = role
       THEN Some(DictMerge([name |-> WALLET_NAMES[i]], GREEK_WALLETS[WALLET_NAMES[i]]))
       ELSE RoleScan(role, i + 1)

\* a variant that answers an unknown role with a default record
get_wallet_by_role_default(role) ==
  IF \E k \in WalletKeys : GREEK_WALLETS[k].role = role
  THEN RoleScan(role, 1)
  ELSE Some([name |-> role])

get_wallet_by_role(role) == RoleScan(role, 1)

(* --------------------------- distribution.py ------------------------- *)

\* sum(e['amount_psp'] for e in emissions)
EmissionTotal(emissions) == SumSeq([i \in 1..Len(emissions) |-> emissions[i].amount_psp])

\* the for loop of distribute_classic_7_5: one emission per table entry, in table order
ClassicEmissions ==
  [i \in 1..Len(WALLET_NAMES) |->
     LET wallet_name == WALLET_NAMES[i]
         config == GREEK_WALLETS[wallet_name]
     IN  [amount_psp |-> config.psp_amount, destination_type |-> config.destination_type,
          name |-> config.name, percentage |-> config.percentage, role |-> config.role,
          wallet |-> wallet_name]]

\* a variant that reports the expected total and takes the check for granted
distribute_classic_7_5_assumed(timestamp) ==
  [emissions |-> ClassicEmissions,
   timestamp |-> timestamp,
   total_psp |-> TOTAL_PSP_PER_TRANSACTION,
   verified |-> TRUE]

distribute_classic_7_5(timestamp) ==
  LET emissions == ClassicEmissions
      total == EmissionTotal(emissions)
  IN  [emissions |-> emissions,
       timestamp |-> timestamp,
       total_psp |-> total,
       verified |-> Abs(total - TOTAL_PSP_PER_TRANSACTION) < TOLERANCE]

\* the list literal `emissions` of distribute_for_service
ServiceEmissionsLiteral(worker_id, client_id, property_id) ==
  << [amount_psp |-> 2000000, destination_id |-> None, destination_type |-> "foundation",
      role |-> "PSP Foundation", wallet |-> "athena"],
     [amount_psp |-> 1225000, destination_id |-> None, destination_type |-> "platform",
      role |-> "Platform", wallet |-> "hermes"],
     [amount_psp |-> 1125000, destination_id |-> None, destination_type |-> "developers",
      role |-> "Developers", wallet |-> "chronos"],
     [amount_psp |-> 1000000, destination_id |-> worker_id, destination_type |-> "user",
      role |-> "Worker", wallet |-> "prometheus"],
     [amount_psp |-> 1000000, destination_id |-> client_id, destination_type |-> "user",
      role |-> "Client", wallet |-> "apollo"],
     [amount_psp |-> 1000000, destination_id |-> property_id, destination_type |-> "property_nft",
      role |-> "Property NFT", wallet |-> "gaia"],
     [amount_psp |-> 75000, destination_id |-> None, destination_type |-> "dao",
      role |-> "DAO/Protocol", wallet |-> "zeus"],
     [amount_psp |-> 75000, destination_id |-> None, destination_type |-> "legal",
      role |-> "Legal", wallet |-> "olympus"] >>

\* a variant that writes `property_id or 0` for the gaia destination
ServiceEmissionsGaiaOrZero(worker_id, client_id, property_id) ==
  [ServiceEmissionsLiteral(worker_id, client_id, property_id)
     EXCEPT ![6].destination_id = IF property_id = None THEN Some(0) ELSE property_id]

ServiceEmissions(worker_id, client_id, property_id) ==
  ServiceEmissionsLiteral(worker_id, client_id, property_id)

\* a variant that reads each amount from the table instead of the literal
distribute_for_service_from_table(worker_id, client_id, property_id, certificate_id, service_value_usd, dapp_origen, timestamp) ==
  LET lit == ServiceEmissions(worker_id, client_id, property_id)
      emissions == [i \in 1..Len(lit) |->
                      [lit[i] EXCEPT !.amount_psp = GREEK_WALLETS[lit[i].wallet].psp_amount]]
      total == EmissionTotal(emissions)
  IN  [certificate_id |-> certificate_id,
       dapp_origen |-> dapp_origen,
       emissions |-> emissions,
       eternal_rules_applied |->
         [olympus_1_percent |-> TRUE, satoshi_principle |-> TRUE, zeus_1_percent |-> TRUE],
       service_value_usd |-> service_value_usd,
       timestamp |-> timestamp,
       total_psp |-> total,
       verified |-> Abs(total - TOTAL_PSP_PER_TRANSACTION) < TOLERANCE]

distribute_for_service(worker_id, client_id, property_id, certificate_id, service_value_usd, dapp_origen, timestamp) ==
  LET emissions == ServiceEmissions(worker_id, client_id, property_id)
      total == EmissionTotal(emissions)
  IN  [certificate_id |-> certificate_id,
       dapp_origen |-> dapp_origen,
       emissions |-> emissions,
       eternal_rules_applied |->
         [olympus_1_percent |-> TRUE, satoshi_principle |-> TRUE, zeus_1_percent |-> TRUE],
       service_value_usd |-> service_value_usd,
       timestamp |-> timestamp,
       total_psp |-> total,
       verified |-> Abs(total - TOTAL_PSP_PER_TRANSACTION) < TOLERANCE]

get_wallet_info(wallet_name) ==
  IF wallet_name \notin DOMAIN GREEK_WALLETS
  THEN None
  ELSE Some(DictMerge([name |-> wallet_name], GREEK_WALLETS[wallet_name]))

\* GREEK_WALLETS.copy(): a new outer dict over the same inner dicts
get_all_wallets == GREEK_WALLETS

get_distribution_summary ==
  [distribution |->
     [name \in DOMAIN GREEK_WALLETS |->
        [percentage |-> GREEK_WALLETS[name].percentage,
         psp |-> GREEK_WALLETS[name].psp_amount,
         role |-> GREEK_WALLETS[name].display_role]],
   eternal_rules |-> ETERNAL_RULES,
   property_destination |-> "gaia",
   protocol |-> "PSP - Proof Of Service Protocol",
   system_destinations |-> <<"athena", "hermes", "chronos", "zeus", "olympus">>,
   total_psp_per_transaction |-> TOTAL_PSP_PER_TRANSACTION,
   user_destinations |-> <<"prometheus", "apollo">>,
   version |-> "1.0.0",
   wallet_count |-> Cardinality(DOMAIN GREEK_WALLETS),
   wallets |-> WALLET_NAMES]

get_gaia_protocol ==
  [description |-> "PSP accumulated in the property, not in the user",
   destination_type |-> "property_nft",
   on_transfer |-> "PSP remains with the property",
   portable |-> TRUE,
   psp_amount |-> 1000000,
   wallet |-> "gaia"]

(* ------------------------------ genesis.py --------------------------- *)

ZeroHash == "0000000000000000000000000000000000000000000000000000000000000000"

\* the dict literal assigned to GENESIS_BLOCK
GenesisBlockLiteral ==
  [block_number |-> 0,
   immutable_rules |-> [olympus_percentage |-> 100, total_psp_fixed |-> 7500000,
                        zeus_percentage |-> 100],
   message |-> "SmartWork Always Leads To Greatness",
   previous_hash |-> ZeroHash,
   principles |-> <<"Radical Trust", "Total Transparency", "Real Utility",
                    "Shared Responsibility", "Progressive Inclusion",
                    "Respect for Time and Effort">>,
   protocol |-> "Proof Of Service Protocol",
   satoshi_legacy |-> "Without verified physical work, there is no emission.",
   timestamp |-> "2025-12-01T00:00:00Z",
   total_psp_per_transaction |-> 7500000,
   version |-> "1.0.0",
   wallets |-> <<"athena", "hermes", "chronos", "prometheus", "apollo", "gaia", "zeus", "olympus">>]

\* sep.join(list)
RECURSIVE Join(_, _)
Join(s, sep) ==
  IF s = <<>> THEN ""
  ELSE IF Len(s) = 1 THEN s[1]
       ELSE s[1] \o sep \o Join(Tail(s), sep)

\* the fractional digits of frac/scale without trailing zeros
RECURSIVE FracDigits(_, _)
FracDigits(frac, scale) ==
  IF scale = 1 \/ frac = 0 THEN ""
  ELSE ToString(frac \div (scale \div 10)) \o FracDigits(frac % (scale \div 10), scale \div 10)

\* f"{x}" of the float n/scale: repr keeps at least one fractional digit
FloatStr(n, scale) ==
  ToString(n \div scale) \o "." \o (IF n % scale = 0 THEN "0" ELSE FracDigits(n % scale, scale))

\* the f-string of _compute_genesis_hash
GenesisString(block) ==
  "block:" \o ToString(block.block_number) \o "|" \o
  "version:" \o block.version \o "|" \o
  "timestamp:" \o block.timestamp \o "|" \o
  "protocol:" \o block.protocol \o "|" \o
  "psp:" \o FloatStr(block.total_psp_per_transaction, 1000000) \o "|" \o
  "message:" \o block.message \o "|" \o
  "satoshi:" \o block.satoshi_legacy \o "|" \o
  "wallets:" \o Join(block.wallets, ",") \o "|" \o
  "zeus:" \o FloatStr(block.immutable_rules.zeus_percentage, 100) \o "|" \o
  "olympus:" \o FloatStr(block.immutable_rules.olympus_percentage, 100)

\* hashlib.sha256(...).hexdigest(): a collision-free digest of the string
Sha256Hex(s) == "sha256(" \o s \o ")"

\* a variant whose pre-hash string also covers the principles list
ComputeGenesisHashWithPrinciples(block) ==
  Sha256Hex(GenesisString(block) \o "|principles:" \o Join(block.principles, ","))

\* _compute_genesis_hash() over a value of GENESIS_BLOCK
ComputeGenesisHash(block) == Sha256Hex(GenesisString(block))

verify_genesis(provided_hash) ==
  LET computed == ComputeGenesisHash(GENESIS_BLOCK)
      result == [block_number |-> 0,
                 genesis_hash |-> computed,
                 protocol_version |-> GENESIS_BLOCK.version,
                 timestamp |-> GENESIS_BLOCK.timestamp,
                 total_psp |-> GENESIS_BLOCK.total_psp_per_transaction,
                 verified |-> TRUE,
                 wallet_count |-> Len(GENESIS_BLOCK.wallets)]
  IN  IF Truthy(provided_hash)
      THEN DictMerge(result, [matches |-> (computed = provided_hash[1]),
                              provided_hash |-> provided_hash[1],
                              verified |-> (computed = provided_hash[1])])
      ELSE result

get_genesis_info ==
  [block_number |-> 0,
   hash |-> GENESIS_HASH,
   message |-> GENESIS_BLOCK.message,
   principles |-> GENESIS_BLOCK.principles,
   satoshi_legacy |-> GENESIS_BLOCK.satoshi_legacy,
   timestamp |-> GENESIS_BLOCK.timestamp,
   total_psp_per_transaction |-> GENESIS_BLOCK.total_psp_per_transaction]

(* ------------------------------ inputs ------------------------------- *)

\* datetime.now(timezone.utc).isoformat(): whatever the clock reads at the call
Timestamps == {"2026-01-01T00:00:00+00:00", "2026-01-02T00:00:00+00:00"}

WorkerIds == {Some(7), Some(42)}

ClientIds == {Some(7), Some(42)}

\* property_id: omitted (None), zero, or a real id
PropertyIds == {None, Some(0), Some(9)}

\* <<certificate_id, service_value_usd, dapp_origen>>: the defaults of the
\* signature, and a call that passes all three
InformationalArgs == {<<None, 0, "generic">>, <<Some(100), 250000000, "handyplan">>}

\* provided_hash: omitted, wrong, empty, right
ProvidedHashes == {None, Some(ZeroHash), Some(""), Some(ComputeGenesisHash(GenesisBlockLiteral))}

\* wallet_name arguments: the eight keys and two strings that are no key
WalletNameArgs == WalletKeys \cup {"Athena", "unknown"}

\* the roles of the table as written
LiteralRoles == {GreekWalletsLiteral[k].role : k \in WalletKeys}

\* role arguments: the eight roles and two strings that are no role
RoleArgs == {"athena"} \cup LiteralRoles \cup {"unknown"}

\* the entries whose amount a caller overwrites: an ordinary one and one that
\* is flagged immutable (every entry is handed out the same way)
AmountWriteKeys == {"athena", "zeus"}

\* what a caller adds to an amount it overwrites: a change beyond the
\* tolerance and one inside it
AmountDeltas == {-2000, 400}

\* <<key, role>>: the role a caller gives an entry
RoleWrites == {<<"athena", "worker">>}

\* <<key, destination_type>>: the destination type a caller gives an entry
DestinationTypeWrites == {<<"zeus", "user">>}

(* ---------------------------- state machine -------------------------- *)

\* the state once the package is imported
Init ==
  /\ GREEK_WALLETS = GreekWalletsLiteral
  /\ ETERNAL_RULES = EternalRulesLiteral
  /\ GENESIS_BLOCK = GenesisBlockLiteral
  /\ GENESIS_HASH = ComputeGenesisHash(GenesisBlockLiteral)
  /\ held = {}
  /\ writes = 0
  /\ last = [args |-> None, at |-> 0, fn |-> "import", ret |-> None]

\* the record of a call that returned ret; args is the tuple of its arguments
Returns(fn, args, ret) == [args |-> args, at |-> writes, fn |-> fn, ret |-> ret]

ValidateTotal ==
  /\ last' = Returns("validate_total", None, validate_total)
  /\ UNCHANGED <<GREEK_WALLETS, ETERNAL_RULES, GENESIS_BLOCK, GENESIS_HASH, held, writes>>

GetWalletByRole ==
  /\ \E role \in RoleArgs :
       last' = Returns("get_wallet_by_role", Some(role), get_wallet_by_role(role))
  /\ UNCHANGED <<GREEK_WALLETS, ETERNAL_RULES, GENESIS_BLOCK, GENESIS_HASH, held, writes>>

GetWalletInfo ==
  /\ \E wallet_name \in WalletNameArgs :
       last' = Returns("get_wallet_info", Some(wallet_name), get_wallet_info(wallet_name))
  /\ UNCHANGED <<GREEK_WALLETS, ETERNAL_RULES, GENESIS_BLOCK, GENESIS_HASH, held, writes>>

DistributeClassic ==
  /\ \E timestamp \in Timestamps :
       last' = Returns("distribute_classic_7_5", None, distribute_classic_7_5(timestamp))
  /\ UNCHANGED <<GREEK_WALLETS, ETERNAL_RULES, GENESIS_BLOCK, GENESIS_HASH, held, writes>>

DistributeForService ==
  /\ \E worker_id \in WorkerIds, client_id \in ClientIds, property_id \in PropertyIds,
        info \in InformationalArgs, timestamp \in Timestamps :
       last' = Returns("distribute_for_service",
                       <<worker_id, client_id, property_id, info[1], info[2], info[3]>>,
                       distribute_for_service(worker_id, client_id, property_id, info[1],
                                              info[2], info[3], timestamp))
  /\ UNCHANGED <<GREEK_WALLETS, ETERNAL_RULES, GENESIS_BLOCK, GENESIS_HASH, held, writes>>

GetGaiaProtocol ==
  /\ last' = Returns("get_gaia_protocol", None, get_gaia_protocol)
  /\ UNCHANGED <<GREEK_WALLETS, ETERNAL_RULES, GENESIS_BLOCK, GENESIS_HASH, held, writes>>

VerifyGenesis ==
  /\ \E provided_hash \in ProvidedHashes :
       last' = Returns("verify_genesis", Some(provided_hash), verify_genesis(provided_hash))
  /\ UNCHANGED <<GREEK_WALLETS, ETERNAL_RULES, GENESIS_BLOCK, GENESIS_HASH, held, writes>>

\* the inner dicts of the copy are the table's own entries
GetAllWallets ==
  /\ last' = Returns("get_all_wallets", None, get_all_wallets)
  /\ held' = held \cup {"wallet_entries"}
  /\ UNCHANGED <<GREEK_WALLETS, ETERNAL_RULES, GENESIS_BLOCK, GENESIS_HASH, writes>>

\* 'eternal_rules' is ETERNAL_RULES itself
GetDistributionSummary ==
  /\ last' = Returns("get_distribution_summary", None, get_distribution_summary)
  /\ held' = held \cup {"ETERNAL_RULES"}
  /\ UNCHANGED <<GREEK_WALLETS, ETERNAL_RULES, GENESIS_BLOCK, GENESIS_HASH, writes>>

\* 'principles' is GENESIS_BLOCK['principles'] itself
GetGenesisInfo ==
  /\ last' = Returns("get_genesis_info", None, get_genesis_info)
  /\ held' = held \cup {"principles"}
  /\ UNCHANGED <<GREEK_WALLETS, ETERNAL_RULES, GENESIS_BLOCK, GENESIS_HASH, writes>>

\* a caller assigns a field of an entry of the dict get_all_wallets() returned
CallerWritesWalletEntry ==
  /\ "wallet_entries" \in held
  /\ writes < MaxWrites
  /\ \/ \E k \in AmountWriteKeys, d \in AmountDeltas :
          GREEK_WALLETS' = [GREEK_WALLETS EXCEPT ![k].psp_amount = @ + d]
     \/ \E w \in RoleWrites :
          /\ GREEK_WALLETS[w[1]].role # w[2]
          /\ GREEK_WALLETS' = [GREEK_WALLETS EXCEPT ![w[1]].role = w[2]]
     \/ \E w \in DestinationTypeWrites :
          /\ GREEK_WALLETS[w[1]].destination_type # w[2]
          /\ GREEK_WALLETS' = [GREEK_WALLETS EXCEPT ![w[1]].destination_type = w[2]]
  /\ writes' = writes + 1
  /\ UNCHANGED <<ETERNAL_RULES, GENESIS_BLOCK, GENESIS_HASH, held, last>>

\* a caller assigns a key of the 'eternal_rules' dict of a summary
CallerWritesEternalRules ==
  /\ "ETERNAL_RULES" \in held
  /\ writes < MaxWrites
  /\ ETERNAL_RULES' = [ETERNAL_RULES EXCEPT !.zeus_percentage = @ + 800]
  /\ writes' = writes + 1
  /\ UNCHANGED <<GREEK_WALLETS, GENESIS_BLOCK, GENESIS_HASH, held, last>>

\* a caller appends to the 'principles' list of a genesis info
CallerWritesPrinciples ==
  /\ "principles" \in held
  /\ writes < MaxWrites
  /\ GENESIS_BLOCK' = [GENESIS_BLOCK EXCEPT !.principles = Append(@, "Anything Goes")]
  /\ writes' = writes + 1
  /\ UNCHANGED <<GREEK_WALLETS, ETERNAL_RULES, GENESIS_HASH, held, last>>

Next ==
  \/ ValidateTotal
  \/ GetWalletByRole
  \/ GetWalletInfo
  \/ DistributeClassic
  \/ DistributeForService
  \/ GetGaiaProtocol
  \/ VerifyGenesis
  \/ GetAllWallets
  \/ GetDistributionSummary
  \/ GetGenesisInfo
  \/ CallerWritesWalletEntry
  \/ CallerWritesEternalRules
  \/ CallerWritesPrinciples

Spec == Init /\ [][Next]_vars

(* ------------------------------ claims ------------------------------- *)

\* the last call was of function f and no caller has written since it returned
Fresh(f) == last.fn = f /\ last.at = writes

\* the step is a call of function f (a caller's write leaves `last` alone)
Returned(f) == writes' = writes /\ last'.fn = f

\* the eight amounts of a table, added one by one
TableSum(table) ==
  table["athena"].psp_amount + table["hermes"].psp_amount + table["chronos"].psp_amount
  + table["prometheus"].psp_amount + table["apollo"].psp_amount + table["gaia"].psp_amount
  + table["zeus"].psp_amount + table["olympus"].psp_amount

\* the amounts of a list of eight emissions, added one by one
ListedSum(e) ==
  e[1].amount_psp + e[2].amount_psp + e[3].amount_psp + e[4].amount_psp
  + e[5].amount_psp + e[6].amount_psp + e[7].amount_psp + e[8].amount_psp

\* x is less than 0.001 away from 7.500
WithinTolerance(x) == x - 7500000 < 1000 /\ 7500000 - x < 1000

\* the arguments of a distribute_for_service call, in the order of its signature
WorkerId(args) == args[1]
ClientId(args) == args[2]
PropertyId(args) == args[3]
CertificateId(args) == args[4]
ServiceValueUsd(args) == args[5]
DappOrigen(args) == args[6]

\* the emission of a list that is addressed to wallet k
EmissionOf(e, k) == e[CHOOSE i \in 1..Len(e) : e[i].wallet = k]

\* the list carries exactly one emission per wallet key, in table order
OnePerWallet(e) == Len(e) = Len(WALLET_NAMES) /\ \A i \in 1..Len(e) : e[i].wallet = WALLET_NAMES[i]

C2_AgreesWithTable ==
  (Fresh("distribute_for_service") \/ Fresh("distribute_classic_7_5")) =>
    /\ OnePerWallet(last.ret.emissions)
    /\ \A i \in 1..Len(last.ret.emissions) :
         LET e == last.ret.emissions[i]
         IN  /\ e.amount_psp = GREEK_WALLETS[e.wallet].psp_amount
             /\ e.destination_type = GREEK_WALLETS[e.wallet].destination_type

\* C3: distribute_for_service returns one emission per wallet key; prometheus
\* is addressed to worker_id, apollo to client_id, gaia to property_id (absent
\* exactly when property_id was omitted), and the other five to nobody.
C3_DestinationIds ==
  last.fn = "distribute_for_service" =>
    LET e == last.ret.emissions
    IN  /\ OnePerWallet(e)
        /\ EmissionOf(e, "prometheus").destination_id = WorkerId(last.args)
        /\ EmissionOf(e, "apollo").destination_id = ClientId(last.args)
        /\ EmissionOf(e, "gaia").destination_id = PropertyId(last.args)
        /\ EmissionOf(e, "gaia").destination_id = None <=> PropertyId(last.args) = None
        /\ \A k \in {"athena", "hermes", "chronos", "zeus", "olympus"} :
             EmissionOf(e, k).destination_id = None

\* a call without property_id has returned a gaia emission addressed to nobody
C3_Witness ==
  /\ last.fn = "distribute_for_service"
  /\ PropertyId(last.args) = None
  /\ WorkerId(last.args) # ClientId(last.args)
  /\ EmissionOf(last.ret.emissions, "gaia").destination_id = None

\* C4: when the caller supplies a digest to verify_genesis (any string, the
\* empty one included) the result has a boolean 'matches', true iff the digest
\* equals the recomputed one, and 'verified' equals it; only without a digest
\* is 'verified' true with no 'matches' entry.
C4_SuppliedDigestIsCompared ==
  last.fn = "verify_genesis" =>
    LET provided_hash == last.args[1]
    IN  IF provided_hash # None
        THEN /\ "matches" \in DOMAIN last.ret
             /\ last.ret.matches <=> (provided_hash[1] = last.ret.genesis_hash)
             /\ last.ret.verified <=> last.ret.matches
        ELSE /\ "matches" \notin DOMAIN last.ret
             /\ last.ret.verified = TRUE

\* the string the import hashes, as Python builds it from the GENESIS_BLOCK literal
GenesisStringAtImport ==
  "block:0|version:1.0.0|timestamp:2025-12-01T00:00:00Z|protocol:Proof Of Service Protocol|psp:7.5|message:SmartWork Always Leads To Greatness|satoshi:Without verified physical work, there is no emission.|wallets:athena,hermes,chronos,prometheus,apollo,gaia,zeus,olympus|zeus:1.0|olympus:1.0"

\* C5: after any sequence of calls get_genesis_info() returns the hash of its
\* first call, and verify_genesis recomputes that same digest whatever digest
\* it was passed.
C5_GenesisHashStable ==
  /\ GENESIS_HASH = Sha256Hex(GenesisStringAtImport)
  /\ last.fn = "get_genesis_info" => last.ret.hash = Sha256Hex(GenesisStringAtImport)
  /\ last.fn = "verify_genesis" =>
       /\ last.ret.genesis_hash = Sha256Hex(GenesisStringAtImport)
       /\ last.ret.genesis_hash = GENESIS_HASH

\* verify_genesis has been passed a wrong digest after a caller appended to
\* the principles list
C5_Witness ==
  /\ Fresh("verify_genesis")
  /\ last.args[1] = Some(ZeroHash)
  /\ GENESIS_BLOCK.principles # GenesisBlockLiteral.principles
  /\ last.ret.genesis_hash = GENESIS_HASH

\* C6: get_wallet_info of a string that is no wallet key and
\* get_wallet_by_role of a string that is no wallet's role return None; what
\* they return otherwise has every key of the entry; neither changes the table.
C6_UnknownIsNone ==
  [][/\ Returned("get_wallet_info") =>
          /\ last'.args[1] \notin WalletKeys => last'.ret = None
          /\ last'.ret # None =>
               /\ last'.args[1] \in WalletKeys
               /\ DOMAIN last'.ret[1] = DOMAIN GREEK_WALLETS'[last'.args[1]] \cup {"name"}
          /\ GREEK_WALLETS' = GREEK_WALLETS
     /\ Returned("get_wallet_by_role") =>
          /\ (\A k \in WalletKeys : GREEK_WALLETS'[k].role # last'.args[1]) => last'.ret = None
          /\ last'.ret # None =>
               \E k \in WalletKeys :
                 /\ GREEK_WALLETS'[k].role = last'.args[1]
                 /\ DOMAIN last'.ret[1] = DOMAIN GREEK_WALLETS'[k] \cup {"name"}
          /\ GREEK_WALLETS' = GREEK_WALLETS]_vars

\* a role the table held at import is looked up after a caller overwrote it
C6_Witness ==
  /\ Fresh("get_wallet_by_role")
  /\ last.args[1] \in LiteralRoles
  /\ last.ret = None

\* the fields of an entry that hold text
TextFields == {"description", "destination_type", "display_role", "name", "role", "special_rule"}

\* the returned record r is the entry of wallet k and names k
IsEntryOf(r, k) ==
  /\ \A f \in DOMAIN GREEK_WALLETS[k] : f \in DOMAIN r /\ r[f] = GREEK_WALLETS[k][f]
  /\ \E f \in DOMAIN r \cap TextFields : r[f] = k

\* C7: get_wallet_info(k) of a wallet key k returns the full entry of k, every
\* field as in the table, together with the key k itself; get_wallet_by_role(r)
\* returns in the same form the first entry in table order whose role is r.
C7_EntryCarriesKey ==
  /\ (Fresh("get_wallet_info") /\ last.args[1] \in WalletKeys) =>
       last.ret # None /\ IsEntryOf(last.ret[1], last.args[1])
  /\ Fresh("get_wallet_by_role") =>
       \A i \in 1..Len(WALLET_NAMES) :
         (/\ GREEK_WALLETS[WALLET_NAMES[i]].role = last.args[1]
          /\ \A j \in 1..(i - 1) : GREEK_WALLETS[WALLET_NAMES[j]].role # last.args[1])
         => last.ret # None /\ IsEntryOf(last.ret[1], WALLET_NAMES[i])

\* C8: both distribution operations return normally on any table; the total
\* is the sum of the emissions returned and 'verified' is true iff the total is
\* less than 0.001 from 7.500; on the unmodified table both return 7.500, true.
C8_VerifiedIffWithinTolerance ==
  (last.fn = "distribute_for_service" \/ last.fn = "distribute_classic_7_5") =>
    /\ Len(last.ret.emissions) = 8
    /\ last.ret.total_psp = ListedSum(last.ret.emissions)
    /\ last.ret.verified <=> WithinTolerance(last.ret.total_psp)
    /\ (last.at = writes /\ GREEK_WALLETS = GreekWalletsLiteral) =>
         last.ret.total_psp = 7500000 /\ last.ret.verified = TRUE

\* distribute_classic_7_5 has returned a result whose total is out of tolerance
C8_Witness ==
  /\ last.fn = "distribute_classic_7_5"
  /\ last.ret.total_psp # 7500000
  /\ last.ret.verified = FALSE

\* C9: the wallet table, the eternal rules and the genesis record are never
\* mutated after import, whatever callers do with the values returned to them.
C9_NeverMutated ==
  /\ GREEK_WALLETS = GreekWalletsLiteral
  /\ ETERNAL_RULES = EternalRulesLiteral
  /\ GENESIS_BLOCK = GenesisBlockLiteral

\* the two calls of a step passed the same worker, client and property ids
SameIds ==
  /\ WorkerId(last'.args) = WorkerId(last.args)
  /\ ClientId(last'.args) = ClientId(last.args)
  /\ PropertyId(last'.args) = PropertyId(last.args)

\* C10: two calls of distribute_for_service with equal worker_id, client_id
\* and property_id return the same emissions, total and verified flag whatever
\* certificate, service value and origin were passed and whenever they are
\* made; those three arguments are echoed unchanged and the three flags of
\* eternal_rules_applied are true.
C10_SplitIgnoresInformationalArgs ==
  [][Returned("distribute_for_service") =>
       /\ (last.fn = "distribute_for_service" /\ SameIds) =>
            /\ last'.ret.emissions = last.ret.emissions
            /\ last'.ret.total_psp = last.ret.total_psp
            /\ last'.ret.verified = last.ret.verified
       /\ last'.ret.certificate_id = CertificateId(last'.args)
       /\ last'.ret.service_value_usd = ServiceValueUsd(last'.args)
       /\ last'.ret.dapp_origen = DappOrigen(last'.args)
       /\ last'.ret.eternal_rules_applied.zeus_1_percent = TRUE
       /\ last'.ret.eternal_rules_applied.olympus_1_percent = TRUE
       /\ last'.ret.eternal_rules_applied.satoshi_principle = TRUE]_vars

\* a call that passed a certificate and an origin has returned after a caller
\* wrote an amount of the table
C10_Witness ==
  /\ Fresh("distribute_for_service")
  /\ last.at > 0
  /\ CertificateId(last.args) # None
  /\ DappOrigen(last.args) # "generic"
  /\ TableSum(GREEK_WALLETS) # 7500000

====
